---- MODULE Spec2Model ----
(***************************************************************************)
(* The transition engine of aiogram-scenario: FiniteStateMachine           *)
(* (fsm/fsm.py) driven through FSMPointer (fsm/fsm_pointer.py).            *)
(*                                                                         *)
(* Every coroutine call is a task.  A task moves from one suspension point *)
(* (an await on the storage or on a hook) to the next in one step; the     *)
(* code between two awaits runs without interleaving, as asyncio runs it.  *)
(* Magazine, TransitionsLocksStorage and AbstractState are imported by     *)
(* fsm.py from modules that are not part of the sources at hand; they are  *)
(* modelled from their contract in the specification (sections 3, 4.2,     *)
(* 4.3).                                                                   *)
(***************************************************************************)
EXTENDS Integers, Sequences, FiniteSets, TLC

\* ------------------------------------------------------------------ bounds
\* Concurrent use: calls are made while fewer than MaxLog entries are persisted.
MaxLog == 2
\* Sequential use: calls are made while fewer than MaxSeqLog are persisted.
MaxSeqLog == 4
\* Table building: registrations are made while the table holds fewer than
\* MaxRegs transitions.
MaxRegs == 3
\* Handler registration: a register_*_handler call is given at most MaxStates
\* states and at most MaxFilters custom filters.
MaxStates == 2
MaxFilters == 2

\* Two callers: enough for one call to overlap another.
Tasks == {"t1", "t2"}

None == "None"

\* -------------------------------------------------------------- AbstractState
\* A state is identified by its name; is_initial is fixed at definition time.
MkState(n, init) == [name |-> n, is_initial |-> init]

AState == MkState("AState", TRUE)
BState == MkState("BState", FALSE)
CState == MkState("CState", FALSE)

\* Python's None where a state object is expected.
NoState == MkState("None", FALSE)

\* str(state): the name under which the state is logged in the magazine.
Str(s) == s.name

\* state.raw_value: the serialized form written to the session-state store.
RawValue(s) == <<"raw", s.name>>

\* The session-state store holds nothing for the actor.
NoRaw == <<>>

\* The signal handlers of the scenario.
Signals == {"sig1", "sig2"}

\* The actor keys (user_id, chat_id).
Actors == {<<1, 10>>, <<2, 10>>}

\* ------------------------------------------------------------------ dicts
EmptyDict == [x \in {} |-> None]

DictSet(d, k, v) == [x \in (DOMAIN d) \cup {k} |-> IF x = k THEN v ELSE d[x]]

\* ----------------------------------------------------------- the FSM table
\* FiniteStateMachine.__init__.  A Python dict keeps its keys in insertion
\* order: source_states is the key order of _transitions (and, by name, of
\* _states_mapping), handler_order[s] the key order of _transitions[s].
EmptyFSM ==
    [transitions |-> EmptyDict, states_mapping |-> EmptyDict,
     initial_state |-> NoState, source_states |-> <<>>,
     handler_order |-> EmptyDict, error |-> None]

\* FiniteStateMachine.set_initial_state
SetInitialState(fsm, state) ==
    IF fsm.initial_state # NoState
      THEN [fsm EXCEPT !.error = "SettingInitialStateError"]
    ELSE IF ~state.is_initial
      THEN [fsm EXCEPT !.error = "SettingInitialStateError"]
    ELSE [fsm EXCEPT !.initial_state = state]

\* add_transition without the check of fsm.py:67-69: a registered
\* (source, signal) pair is registered again and its destination replaced.
AddTransition_Overwrites(fsm, source_state, signal_handler, destination_state) ==
    IF source_state = destination_state
      THEN [fsm EXCEPT !.error = "AddingTransitionError"]
    ELSE IF source_state \notin DOMAIN fsm.transitions
      THEN IF source_state.is_initial
              /\ \E i \in DOMAIN fsm.transitions : i.is_initial
             THEN [fsm EXCEPT !.error = "AddingTransitionError"]
             ELSE [fsm EXCEPT
                     !.transitions =
                        DictSet(fsm.transitions, source_state,
                                DictSet(EmptyDict, signal_handler, destination_state)),
                     !.states_mapping =
                        DictSet(fsm.states_mapping, Str(source_state), source_state),
                     !.source_states = Append(fsm.source_states, source_state),
                     !.handler_order =
                        DictSet(fsm.handler_order, source_state, <<signal_handler>>)]
    ELSE [fsm EXCEPT
            !.transitions =
               DictSet(fsm.transitions, source_state,
                       DictSet(fsm.transitions[source_state],
                               signal_handler, destination_state)),
            !.handler_order =
               DictSet(fsm.handler_order, source_state,
                       IF signal_handler \in DOMAIN fsm.transitions[source_state]
                         THEN fsm.handler_order[source_state]
                         ELSE Append(fsm.handler_order[source_state],
                                     signal_handler))]

\* add_transition without the check of fsm.py:57-58: a state may be given
\* as its own destination.
AddTransition_AllowsSelf(fsm, source_state, signal_handler, destination_state) ==
    IF source_state \notin DOMAIN fsm.transitions
      THEN IF source_state.is_initial
              /\ \E i \in DOMAIN fsm.transitions : i.is_initial
             THEN [fsm EXCEPT !.error = "AddingTransitionError"]
             ELSE [fsm EXCEPT
                     !.transitions =
                        DictSet(fsm.transitions, source_state,
                                DictSet(EmptyDict, signal_handler, destination_state)),
                     !.states_mapping =
                        DictSet(fsm.states_mapping, Str(source_state), source_state),
                     !.source_states = Append(fsm.source_states, source_state),
                     !.handler_order =
                        DictSet(fsm.handler_order, source_state, <<signal_handler>>)]
    ELSE IF signal_handler \in DOMAIN fsm.transitions[source_state]
      THEN [fsm EXCEPT !.error = "AddingTransitionError"]
    ELSE [fsm EXCEPT
            !.transitions =
               DictSet(fsm.transitions, source_state,
                       DictSet(fsm.transitions[source_state],
                               signal_handler, destination_state)),
            !.handler_order =
               DictSet(fsm.handler_order, source_state,
                       Append(fsm.handler_order[source_state], signal_handler))]

\* FiniteStateMachine.add_transition
AddTransition(fsm, source_state, signal_handler, destination_state) ==
    IF source_state = destination_state
      THEN [fsm EXCEPT !.error = "AddingTransitionError"]
    ELSE IF source_state \notin DOMAIN fsm.transitions
      THEN IF source_state.is_initial
              /\ \E i \in DOMAIN fsm.transitions : i.is_initial
             THEN [fsm EXCEPT !.error = "AddingTransitionError"]
             ELSE [fsm EXCEPT
                     !.transitions =
                        DictSet(fsm.transitions, source_state,
                                DictSet(EmptyDict, signal_handler, destination_state)),
                     !.states_mapping =
                        DictSet(fsm.states_mapping, Str(source_state), source_state),
                     !.source_states = Append(fsm.source_states, source_state),
                     !.handler_order =
                        DictSet(fsm.handler_order, source_state, <<signal_handler>>)]
    ELSE IF signal_handler \in DOMAIN fsm.transitions[source_state]
      THEN [fsm EXCEPT !.error = "AddingTransitionError"]
    ELSE [fsm EXCEPT
            !.transitions =
               DictSet(fsm.transitions, source_state,
                       DictSet(fsm.transitions[source_state],
                               signal_handler, destination_state)),
            !.handler_order =
               DictSet(fsm.handler_order, source_state,
                       Append(fsm.handler_order[source_state], signal_handler))]

\* The scenario the engine runs: AState -sig1-> BState, AState -sig2-> CState,
\* BState -sig1-> AState.  CState has no outgoing transition and BState has
\* none for sig2.
Registrations ==
    << <<AState, "sig1", BState>>,
       <<AState, "sig2", CState>>,
       <<BState, "sig1", AState>> >>

RECURSIVE Register(_, _)
Register(fsm, regs) ==
    IF regs = <<>> THEN fsm
    ELSE Register(AddTransition(fsm, regs[1][1], regs[1][2], regs[1][3]), Tail(regs))

ScenarioFSM == Register(SetInitialState(EmptyFSM, AState), Registrations)

\* ---------------------------------------------------------------- Magazine
\* The backend store answers "not found" for an actor without a log; no
\* operation ever stores an empty log, so the empty sequence stands for it.
NotFound == <<>>

\* FiniteStateMachine.get_magazine: a new, unloaded magazine.
NewMagazine == [is_loaded |-> FALSE, states |-> <<>>, staged |-> <<>>]

\* Magazine.load: the persisted log, or the initialization-required condition.
MagazineLoad(log) ==
    IF log = NotFound
      THEN [error |-> "MagazineInitializationError", magazine |-> NewMagazine]
      ELSE [error |-> None,
            magazine |-> [is_loaded |-> TRUE, states |-> log, staged |-> <<>>]]

\* Magazine.initialize: a fresh single-entry log, in memory and in the store.
MagazineInitialize(initial_name) ==
    [log |-> <<initial_name>>,
     magazine |-> [is_loaded |-> TRUE, states |-> <<initial_name>>, staged |-> <<>>]]

\* Magazine.set: stage a pending append; the store is not touched.
MagazineSet(m, state_name) ==
    [m EXCEPT !.states = Append(@, state_name), !.staged = Append(@, state_name)]

\* Magazine.commit: append the staged entries to the persisted log.
MagazineCommit(m, log) ==
    IF ~m.is_loaded \/ m.staged = <<>>
      THEN [error |-> "TransitionError", log |-> log, magazine |-> m]
      ELSE [error |-> None, log |-> log \o m.staged,
            magazine |-> [m EXCEPT !.staged = <<>>]]

\* Magazine.current_state
CurrentState(m) == m.states[Len(m.states)]

\* Magazine.penultimate_state
PenultimateState(m) ==
    IF Len(m.states) < 2 THEN None ELSE m.states[Len(m.states) - 1]

\* ------------------------------------------------- TransitionsLocksStorage
MkLock(source_state, destination_state, actor) ==
    [source_state |-> source_state, destination_state |-> destination_state,
     actor |-> actor]

\* A lock conflicts with every lock held for the same actor key.
LockConflict(held, actor) == \E l \in held : l.actor = actor

LockAdd(held, lock) == held \cup {lock}

\* The guard's exit: the lock this transition added is removed.
LockRemove(held, lock) == held \ {lock}

\* ------------------------------------------------------------------- state
VARIABLES
    transitions,      \* FiniteStateMachine._transitions
    states_mapping,   \* FiniteStateMachine._states_mapping
    initial_state,    \* FiniteStateMachine._initial_state
    source_states,    \* the key order of _transitions and of _states_mapping
    handler_order,    \* source state -> the key order of _transitions[source]
    table_error,      \* the exception the last table-building call raised
    csv_file,         \* the rows the last export wrote
    reg_call,         \* the last CommonRegistrar.register_*_handler call
    reg_stack,        \* the Python frames of that call, innermost last
    dispatcher_calls, \* the calls it made on self._dispatcher, in order
    locks,            \* FiniteStateMachine._locks_storage
    store_log,        \* the backend store: actor key -> persisted magazine log
    store_state,      \* the session-state store: actor key -> current raw state
    task,             \* the coroutine calls: position, arguments, locals
    completed         \* actor key -> destinations of the transitions that returned

vars == <<transitions, states_mapping, initial_state, source_states,
          handler_order, table_error, csv_file, reg_call, reg_stack,
          dispatcher_calls, locks, store_log, store_state, task, completed>>

\* What the registrar's calls work on.
registrar == <<reg_call, reg_stack, dispatcher_calls>>

\* The transitions table and the registrar: built before the engine runs,
\* left alone by the transition calls.
table == <<transitions, states_mapping, initial_state, source_states,
           handler_order, table_error, csv_file, registrar>>

\* Everything the engine's calls work on; table building leaves it alone.
engine == <<locks, store_log, store_state, task, completed>>

RECURSIVE SumLen(_, _)
SumLen(logs, as) ==
    IF as = {} THEN 0
    ELSE LET a == CHOOSE x \in as : TRUE IN Len(logs[a]) + SumLen(logs, as \ {a})

\* The number of entries persisted over all actors.
TotalLog == SumLen(store_log, Actors)

\* No register_*_handler call has been made.
NoCall ==
    [kind |-> None, states |-> <<>>, custom_filters |-> <<>>, result |-> None]

IdleTask ==
    [pc |-> "idle", op |-> None, actor |-> <<0, 0>>, signal_handler |-> None,
     magazine |-> NewMagazine, source_state |-> NoState, destination_state |-> NoState,
     steps |-> <<>>, result |-> None]

Init ==
    /\ transitions = ScenarioFSM.transitions
    /\ states_mapping = ScenarioFSM.states_mapping
    /\ initial_state = ScenarioFSM.initial_state
    /\ source_states = ScenarioFSM.source_states
    /\ handler_order = ScenarioFSM.handler_order
    /\ table_error = None
    /\ csv_file = <<>>
    /\ reg_call = NoCall
    /\ reg_stack = <<>>
    /\ dispatcher_calls = <<>>
    /\ locks = {}
    /\ store_log = [a \in Actors |-> NotFound]
    /\ store_state = [a \in Actors |-> NoRaw]
    /\ task = [t \in Tasks |-> IdleTask]
    /\ completed = [a \in Actors |-> <<>>]

\* The task's own lock, as acquired at fsm.py:92.
OwnLock(t) ==
    MkLock(task[t].source_state, task[t].destination_state, task[t].actor)

\* The task is inside the `with self._locks_storage.acquire(...)` block.
InLocked(t) ==
    task[t].pc \in {"process_exit", "process_enter", "set_state", "commit"}

\* The record of the step the task is suspended in, as it ends with `outcome`.
Step(t, outcome) == [step |-> task[t].pc, outcome |-> outcome]

\* The call ended: the coroutine returned or raised `result`.
Finish(t, result) ==
    task' = [task EXCEPT ![t] =
               [IdleTask EXCEPT !.pc = "done", !.op = task[t].op,
                                !.actor = task[t].actor, !.steps = task[t].steps,
                                !.result = result]]

\* ------------------------------------------------------------- FSMPointer
\* FSMPointer.go_next -> execute_next_transition up to `await magazine.load()`.
GoNext(t, actor, signal_handler) ==
    /\ task[t].pc \in {"idle", "done"}
    /\ task' = [task EXCEPT ![t] =
                  [IdleTask EXCEPT !.pc = "load", !.op = "next", !.actor = actor,
                                   !.signal_handler = signal_handler]]
    /\ UNCHANGED <<table, locks, store_log, store_state, completed>>

\* FSMPointer.go_back -> execute_back_transition up to `await magazine.load()`.
GoBack(t, actor) ==
    /\ task[t].pc \in {"idle", "done"}
    /\ task' = [task EXCEPT ![t] =
                  [IdleTask EXCEPT !.pc = "load", !.op = "back", !.actor = actor]]
    /\ UNCHANGED <<table, locks, store_log, store_state, completed>>

\* ------------------------------------------------------- loading the magazine
\* Load with execute_next_transition letting MagazineInitializationError out.
Load_NoRecovery(t) ==
    /\ task[t].pc = "load"
    /\ LET r == MagazineLoad(store_log[task[t].actor]) IN
         IF r.error = None
           THEN task' = [task EXCEPT ![t].pc = "loaded", ![t].magazine = r.magazine]
           ELSE Finish(t, r.error)
    /\ UNCHANGED <<table, locks, store_log, store_state, completed>>

\* Load with execute_back_transition recovering as execute_next_transition does.
Load_BackInitializes(t) ==
    /\ task[t].pc = "load"
    /\ LET r == MagazineLoad(store_log[task[t].actor]) IN
         IF r.error = None
           THEN task' = [task EXCEPT ![t].pc = "loaded", ![t].magazine = r.magazine]
           ELSE task' = [task EXCEPT ![t].pc = "initialize"]
    /\ UNCHANGED <<table, locks, store_log, store_state, completed>>

\* `await magazine.load()`: the store is read.  execute_next_transition
\* catches MagazineInitializationError and goes on to initialize;
\* execute_back_transition lets it propagate.
Load(t) ==
    /\ task[t].pc = "load"
    /\ LET r == MagazineLoad(store_log[task[t].actor]) IN
         IF r.error = None
           THEN task' = [task EXCEPT ![t].pc = "loaded", ![t].magazine = r.magazine]
         ELSE IF task[t].op = "next"
           THEN task' = [task EXCEPT ![t].pc = "initialize"]
         ELSE Finish(t, r.error)
    /\ UNCHANGED <<table, locks, store_log, store_state, completed>>

\* `await magazine.initialize(str(self.initial_state))`
Initialize(t) ==
    /\ task[t].pc = "initialize"
    /\ IF initial_state = NoState
         THEN Finish(t, "InitialStateError") /\ UNCHANGED store_log
         ELSE LET r == MagazineInitialize(Str(initial_state)) IN
                /\ store_log' = [store_log EXCEPT ![task[t].actor] = r.log]
                /\ task' = [task EXCEPT ![t].pc = "loaded",
                                        ![t].magazine = r.magazine,
                                        ![t].steps = Append(@, Step(t, "ok"))]
    /\ UNCHANGED <<table, locks, store_state, completed>>

\* ------------------------------------------------------ execute_transition
\* EnterTransition without the check for a held lock.
EnterTransition_Unguarded(t, source_state, destination_state) ==
    IF ~task[t].magazine.is_loaded
      THEN Finish(t, "TransitionError") /\ UNCHANGED locks
    ELSE /\ locks' = LockAdd(locks, MkLock(source_state, destination_state,
                                           task[t].actor))
         /\ task' = [task EXCEPT ![t].pc = "process_exit",
                                 ![t].source_state = source_state,
                                 ![t].destination_state = destination_state]

\* execute_transition refusing to start while any lock is held, whoever
\* the actor.
EnterTransition_AnyActor(t, source_state, destination_state) ==
    IF ~task[t].magazine.is_loaded
      THEN Finish(t, "TransitionError") /\ UNCHANGED locks
    ELSE IF locks # {}
      THEN Finish(t, "TransitionLockingError") /\ UNCHANGED locks
    ELSE /\ locks' = LockAdd(locks, MkLock(source_state, destination_state,
                                           task[t].actor))
         /\ task' = [task EXCEPT ![t].pc = "process_exit",
                                 ![t].source_state = source_state,
                                 ![t].destination_state = destination_state]

\* execute_transition up to `await source_state.process_exit(...)`: the
\* is_loaded check and the acquisition of the lock.
EnterTransition(t, source_state, destination_state) ==
    IF ~task[t].magazine.is_loaded
      THEN Finish(t, "TransitionError") /\ UNCHANGED locks
    ELSE IF LockConflict(locks, task[t].actor)
      THEN Finish(t, "TransitionLockingError") /\ UNCHANGED locks
    ELSE /\ locks' = LockAdd(locks, MkLock(source_state, destination_state,
                                           task[t].actor))
         /\ task' = [task EXCEPT ![t].pc = "process_exit",
                                 ![t].source_state = source_state,
                                 ![t].destination_state = destination_state]

\* LeaveLocked releasing the lock on the normal path only.
LeaveLocked_ReleaseOnReturn(t, result, outcome) ==
    /\ locks' = IF result = "ok" THEN LockRemove(locks, OwnLock(t)) ELSE locks
    /\ task' = [task EXCEPT ![t] =
                  [IdleTask EXCEPT !.pc = "done",
                                   !.actor = task[t].actor,
                                   !.steps = Append(task[t].steps, Step(t, outcome)),
                                   !.result = result]]

\* The `with` block is left, by return or by exception: the guard releases
\* the lock and the call ends with `result`; `outcome` is how the step the
\* task was in ended.
LeaveLocked(t, result, outcome) ==
    /\ locks' = LockRemove(locks, OwnLock(t))
    /\ task' = [task EXCEPT ![t] =
                  [IdleTask EXCEPT !.pc = "done", !.op = task[t].op,
                                   !.actor = task[t].actor,
                                   !.steps = Append(task[t].steps, Step(t, outcome)),
                                   !.result = result]]

\* execute_next_transition after the magazine is loaded: source and
\* destination are looked up in the dicts (a missing key is a KeyError).
ResolveNext(t) ==
    /\ task[t].pc = "loaded"
    /\ task[t].op = "next"
    /\ LET current == CurrentState(task[t].magazine) IN
         IF current \notin DOMAIN states_mapping
           THEN Finish(t, "KeyError") /\ UNCHANGED locks
         ELSE IF states_mapping[current] \notin DOMAIN transitions
           THEN Finish(t, "KeyError") /\ UNCHANGED locks
         ELSE IF task[t].signal_handler
                   \notin DOMAIN transitions[states_mapping[current]]
           THEN Finish(t, "KeyError") /\ UNCHANGED locks
         ELSE EnterTransition(t, states_mapping[current],
                 transitions[states_mapping[current]][task[t].signal_handler])
    /\ UNCHANGED <<table, store_log, store_state, completed>>

\* ResolveBack without the check of penultimate_state against None.
ResolveBack_NoHistoryCheck(t) ==
    /\ task[t].pc = "loaded"
    /\ task[t].op = "back"
    /\ LET current == CurrentState(task[t].magazine)
           penultimate_state == PenultimateState(task[t].magazine) IN
         IF current \notin DOMAIN states_mapping
           THEN Finish(t, "KeyError") /\ UNCHANGED locks
         ELSE IF penultimate_state \notin DOMAIN states_mapping
           THEN Finish(t, "KeyError") /\ UNCHANGED locks
         ELSE EnterTransition(t, states_mapping[current],
                              states_mapping[penultimate_state])
    /\ UNCHANGED <<table, store_log, store_state, completed>>

\* ResolveBack unwinding the log: the retreat goes to the entry before the
\* penultimate one when there is one.
ResolveBack_Unwinds(t) ==
    /\ task[t].pc = "loaded"
    /\ task[t].op = "back"
    /\ LET states == task[t].magazine.states
           current == CurrentState(task[t].magazine)
           penultimate_state ==
              IF Len(states) >= 3 THEN states[Len(states) - 2]
              ELSE PenultimateState(task[t].magazine) IN
         IF penultimate_state = None
           THEN Finish(t, "TransitionError") /\ UNCHANGED locks
         ELSE IF current \notin DOMAIN states_mapping
           THEN Finish(t, "KeyError") /\ UNCHANGED locks
         ELSE IF penultimate_state \notin DOMAIN states_mapping
           THEN Finish(t, "KeyError") /\ UNCHANGED locks
         ELSE EnterTransition(t, states_mapping[current],
                              states_mapping[penultimate_state])
    /\ UNCHANGED <<table, store_log, store_state, completed>>

\* execute_back_transition after the magazine is loaded.
ResolveBack(t) ==
    /\ task[t].pc = "loaded"
    /\ task[t].op = "back"
    /\ LET current == CurrentState(task[t].magazine)
           penultimate_state == PenultimateState(task[t].magazine) IN
         IF penultimate_state = None
           THEN Finish(t, "TransitionError") /\ UNCHANGED locks
         ELSE IF current \notin DOMAIN states_mapping
           THEN Finish(t, "KeyError") /\ UNCHANGED locks
         ELSE IF penultimate_state \notin DOMAIN states_mapping
           THEN Finish(t, "KeyError") /\ UNCHANGED locks
         ELSE EnterTransition(t, states_mapping[current],
                              states_mapping[penultimate_state])
    /\ UNCHANGED <<table, store_log, store_state, completed>>

\* ProcessExit going on to persist the state before the enter hook is awaited.
ProcessExit_SkipsEnter(t) ==
    /\ task[t].pc = "process_exit"
    /\ task' = [task EXCEPT ![t].pc = "set_state",
                            ![t].steps = Append(@, Step(t, "ok"))]
    /\ UNCHANGED <<table, locks, store_log, store_state, completed>>

\* `await source_state.process_exit(event, **exit_kwargs)` returns.
ProcessExit(t) ==
    /\ task[t].pc = "process_exit"
    /\ task' = [task EXCEPT ![t].pc = "process_enter",
                            ![t].steps = Append(@, Step(t, "ok"))]
    /\ UNCHANGED <<table, locks, store_log, store_state, completed>>

\* process_exit raising with the exception swallowed: the call goes on to
\* process_enter.
ProcessExitRaises_Swallowed(t) ==
    /\ task[t].pc = "process_exit"
    /\ task' = [task EXCEPT ![t].pc = "process_enter",
                            ![t].steps = Append(@, Step(t, "raised"))]
    /\ UNCHANGED <<table, locks, store_log, store_state, completed>>

\* process_exit raises.
ProcessExitRaises(t) ==
    /\ task[t].pc = "process_exit"
    /\ LeaveLocked(t, "HookError", "raised")
    /\ UNCHANGED <<table, store_log, store_state, completed>>

\* `await destination_state.process_enter(event, **enter_kwargs)` returns.
ProcessEnter(t) ==
    /\ task[t].pc = "process_enter"
    /\ task' = [task EXCEPT ![t].pc = "set_state",
                            ![t].steps = Append(@, Step(t, "ok"))]
    /\ UNCHANGED <<table, locks, store_log, store_state, completed>>

\* process_enter raises.
ProcessEnterRaises(t) ==
    /\ task[t].pc = "process_enter"
    /\ LeaveLocked(t, "HookError", "raised")
    /\ UNCHANGED <<table, store_log, store_state, completed>>

\* SetState staging the source state's name instead of the destination's.
SetState_StagesSource(t) ==
    /\ task[t].pc = "set_state"
    /\ store_state' = [store_state EXCEPT
                         ![task[t].actor] = RawValue(task[t].destination_state)]
    /\ task' = [task EXCEPT
                  ![t].pc = "commit",
                  ![t].magazine = MagazineSet(@, Str(task[t].source_state)),
                  ![t].steps = Append(@, Step(t, "ok"))]
    /\ UNCHANGED <<table, locks, store_log, completed>>

\* SetState persisting the source state as the current state.
SetState_PersistsSource(t) ==
    /\ task[t].pc = "set_state"
    /\ store_state' = [store_state EXCEPT
                         ![task[t].actor] = RawValue(task[t].source_state)]
    /\ task' = [task EXCEPT
                  ![t].pc = "commit",
                  ![t].magazine = MagazineSet(@, Str(task[t].destination_state)),
                  ![t].steps = Append(@, Step(t, "ok"))]
    /\ UNCHANGED <<table, locks, store_log, completed>>

\* `await self._set_state(destination_state, ...)` writes the raw value;
\* then magazine.set(str(destination_state)) stages the name.
SetState(t) ==
    /\ task[t].pc = "set_state"
    /\ store_state' = [store_state EXCEPT
                         ![task[t].actor] = RawValue(task[t].destination_state)]
    /\ task' = [task EXCEPT
                  ![t].pc = "commit",
                  ![t].magazine = MagazineSet(@, Str(task[t].destination_state)),
                  ![t].steps = Append(@, Step(t, "ok"))]
    /\ UNCHANGED <<table, locks, store_log, completed>>

\* The session-state store fails the write.
SetStateFails(t) ==
    /\ task[t].pc = "set_state"
    /\ LeaveLocked(t, "StorageError", "failed")
    /\ UNCHANGED <<table, store_log, store_state, completed>>

\* `await magazine.commit()` appends to the persisted log; the block ends.
Commit(t) ==
    /\ task[t].pc = "commit"
    /\ LET r == MagazineCommit(task[t].magazine, store_log[task[t].actor]) IN
         IF r.error = None
           THEN /\ store_log' = [store_log EXCEPT ![task[t].actor] = r.log]
                /\ LeaveLocked(t, "ok", "ok")
                /\ completed' = [completed EXCEPT ![task[t].actor] =
                                   Append(@, Str(task[t].destination_state))]
           ELSE /\ UNCHANGED <<store_log, completed>>
                /\ LeaveLocked(t, r.error, "failed")
    /\ UNCHANGED <<table, store_state>>

\* The backend store fails the append.
CommitFails(t) ==
    /\ task[t].pc = "commit"
    /\ LeaveLocked(t, "StorageError", "failed")
    /\ UNCHANGED <<table, store_log, store_state, completed>>

\* The task is cancelled at the await it is suspended in.
Cancel(t) ==
    /\ task[t].pc \in {"load", "initialize", "loaded"} \/ InLocked(t)
    /\ IF InLocked(t)
         THEN LeaveLocked(t, "CancelledError", "cancelled")
         ELSE Finish(t, "CancelledError") /\ UNCHANGED locks
    /\ UNCHANGED <<table, store_log, store_state, completed>>

\* ----------------------------------------------------------- specification
\* Calls arrive at any time, from any caller, for any actor.
Next ==
    \/ \E t \in Tasks, a \in Actors, s \in Signals :
          TotalLog < MaxLog /\ GoNext(t, a, s)
    \/ \E t \in Tasks, a \in Actors : TotalLog < MaxLog /\ GoBack(t, a)
    \/ \E t \in Tasks : Load(t)
    \/ \E t \in Tasks : Initialize(t)
    \/ \E t \in Tasks : ResolveNext(t)
    \/ \E t \in Tasks : ResolveBack(t)
    \/ \E t \in Tasks : ProcessExit(t)
    \/ \E t \in Tasks : ProcessExitRaises(t)
    \/ \E t \in Tasks : ProcessEnter(t)
    \/ \E t \in Tasks : ProcessEnterRaises(t)
    \/ \E t \in Tasks : SetState(t)
    \/ \E t \in Tasks : SetStateFails(t)
    \/ \E t \in Tasks : Commit(t)
    \/ \E t \in Tasks : CommitFails(t)
    \/ \E t \in Tasks : Cancel(t)

Spec == Init /\ [][Next]_vars

\* No call is in flight.
Quiet == \A t \in Tasks : task[t].pc \in {"idle", "done"}

\* Sequential use: a call is made only when no other call is in flight.
SeqNext ==
    \/ \E t \in Tasks, a \in Actors, s \in Signals :
          Quiet /\ TotalLog < MaxSeqLog /\ GoNext(t, a, s)
    \/ \E t \in Tasks, a \in Actors :
          Quiet /\ TotalLog < MaxSeqLog /\ GoBack(t, a)
    \/ \E t \in Tasks : Load(t)
    \/ \E t \in Tasks : Initialize(t)
    \/ \E t \in Tasks : ResolveNext(t)
    \/ \E t \in Tasks : ResolveBack(t)
    \/ \E t \in Tasks : ProcessExit(t)
    \/ \E t \in Tasks : ProcessExitRaises(t)
    \/ \E t \in Tasks : ProcessEnter(t)
    \/ \E t \in Tasks : ProcessEnterRaises(t)
    \/ \E t \in Tasks : SetState(t)
    \/ \E t \in Tasks : SetStateFails(t)
    \/ \E t \in Tasks : Commit(t)
    \/ \E t \in Tasks : CommitFails(t)
    \/ \E t \in Tasks : Cancel(t)

SpecSeq == Init /\ [][SeqNext]_vars

\* ---------------------------------------------------------- table building
\* A second state declared initial, whose name does not end in "State".
Start == MkState("Start", TRUE)

\* The states handed to the table-building calls.
TableStates == {AState, BState, Start}

\* FiniteStateMachine.add_transitions: one add_transition per source state,
\* in order; the first exception ends the loop and nothing is undone.
RECURSIVE AddTransitions(_, _, _, _)
AddTransitions(fsm, sources, signal_handler, destination_state) ==
    IF sources = <<>> THEN fsm
    ELSE LET added == AddTransition(fsm, Head(sources), signal_handler,
                                    destination_state)
         IN IF added.error # None THEN added
            ELSE AddTransitions(added, Tail(sources), signal_handler,
                                destination_state)

\* FiniteStateMachine._signal_handlers: the distinct handlers, in the order
\* in which the source states' dicts first mention them.
RECURSIVE SignalHandlers(_, _, _)
SignalHandlers(fsm, i, signal_handlers) ==
    IF i > Len(fsm.source_states) THEN signal_handlers
    ELSE LET handlers == fsm.handler_order[fsm.source_states[i]]
         IN SignalHandlers(fsm, i + 1,
               signal_handlers \o
                 SelectSeq(handlers,
                           LAMBDA handler :
                             \A j \in 1..Len(signal_handlers) :
                                signal_handlers[j] # handler))

\* The characters of the strings that reach a CSV cell.
Chars(str) ==
    CASE str = "AState" -> <<"A", "S", "t", "a", "t", "e">>
      [] str = "BState" -> <<"B", "S", "t", "a", "t", "e">>
      [] str = "Start" -> <<"S", "t", "a", "r", "t">>
      [] str = "sig1" -> <<"s", "i", "g", "1">>
      [] str = "sig2" -> <<"s", "i", "g", "2">>
      [] str = "-" -> <<"-">>
      [] str = "" -> <<>>

\* The values given for the export's empty_cell parameter.
EmptyCells == {Chars(""), Chars("-")}

\* cell.endswith("State")
EndsWithState(cell) ==
    /\ Len(cell) >= 5
    /\ SubSeq(cell, Len(cell) - 4, Len(cell)) = <<"S", "t", "a", "t", "e">>

\* cell[:-5]
CutState(cell) == SubSeq(cell, 1, Len(cell) - 5)

\* rows[0]: an empty corner cell, then the keys of _states_mapping.
HeaderRow(fsm) ==
    <<Chars("")>> \o [i \in 1..Len(fsm.source_states) |->
                        Chars(Str(fsm.source_states[i]))]

\* The row of one handler: its name, then one cell per source state.
HandlerRow(fsm, handler, empty_cell) ==
    <<Chars(handler)>> \o
      [i \in 1..Len(fsm.source_states) |->
         LET state == fsm.source_states[i] IN
           IF handler \in DOMAIN fsm.transitions[state]
             THEN Chars(Str(fsm.transitions[state][handler]))
             ELSE empty_cell]

\* The cut_state pass over one row; the first cell is skipped.
CutRow(row, empty_cell) ==
    [index \in 1..Len(row) |->
       IF index > 1 /\ row[index] # empty_cell /\ EndsWithState(row[index])
         THEN CutState(row[index])
         ELSE row[index]]

\* FiniteStateMachine.export_transitions_to_csv: the rows it writes.
ExportTransitionsToCsv(fsm, empty_cell, cut_state) ==
    IF DOMAIN fsm.transitions = {}
      THEN [error |-> "ExportCSVError", rows |-> <<>>]
      ELSE LET signal_handlers == SignalHandlers(fsm, 1, <<>>)
               rows == <<HeaderRow(fsm)>> \o
                         [k \in 1..Len(signal_handlers) |->
                            HandlerRow(fsm, signal_handlers[k], empty_cell)]
           IN [error |-> None,
               rows |-> IF cut_state
                          THEN [k \in 1..Len(rows) |-> CutRow(rows[k], empty_cell)]
                          ELSE rows]

\* The FiniteStateMachine object as the table-building calls find it.
TableFSM ==
    [transitions |-> transitions, states_mapping |-> states_mapping,
     initial_state |-> initial_state, source_states |-> source_states,
     handler_order |-> handler_order, error |-> None]

\* The object's fields after a call, and the exception the call raised.
Install(fsm) ==
    /\ transitions' = fsm.transitions
    /\ states_mapping' = fsm.states_mapping
    /\ initial_state' = fsm.initial_state
    /\ source_states' = fsm.source_states
    /\ handler_order' = fsm.handler_order
    /\ table_error' = fsm.error

\* The number of transitions the table holds.
RECURSIVE NumRegs(_, _)
NumRegs(order, i) ==
    IF i > Len(order) THEN 0
    ELSE Len(handler_order[order[i]]) + NumRegs(order, i + 1)

set_initial_state(state) ==
    /\ Install(SetInitialState(TableFSM, state))
    /\ UNCHANGED <<csv_file, registrar, engine>>

add_transition(source_state, signal_handler, destination_state) ==
    /\ Install(AddTransition(TableFSM, source_state, signal_handler,
                             destination_state))
    /\ UNCHANGED <<csv_file, registrar, engine>>

add_transitions(sources, signal_handler, destination_state) ==
    /\ Install(AddTransitions(TableFSM, sources, signal_handler,
                              destination_state))
    /\ UNCHANGED <<csv_file, registrar, engine>>

export_transitions_to_csv(empty_cell, cut_state) ==
    LET export == ExportTransitionsToCsv(TableFSM, empty_cell, cut_state) IN
      /\ table_error' = export.error
      /\ csv_file' = IF export.error = None THEN export.rows ELSE csv_file
      /\ UNCHANGED <<transitions, states_mapping, initial_state, source_states,
                     handler_order, registrar, engine>>

\* A machine as constructed: nothing registered, nothing exported.
InitTable ==
    /\ transitions = EmptyFSM.transitions
    /\ states_mapping = EmptyFSM.states_mapping
    /\ initial_state = EmptyFSM.initial_state
    /\ source_states = EmptyFSM.source_states
    /\ handler_order = EmptyFSM.handler_order
    /\ table_error = None
    /\ csv_file = <<>>
    /\ reg_call = NoCall
    /\ reg_stack = <<>>
    /\ dispatcher_calls = <<>>
    /\ locks = {}
    /\ store_log = [a \in Actors |-> NotFound]
    /\ store_state = [a \in Actors |-> NoRaw]
    /\ task = [t \in Tasks |-> IdleTask]
    /\ completed = [a \in Actors |-> <<>>]

NextTable ==
    \/ \E s \in TableStates : set_initial_state(s)
    \/ \E s \in TableStates, h \in Signals, d \in TableStates :
          NumRegs(source_states, 1) < MaxRegs /\ add_transition(s, h, d)
    \/ \E s1 \in TableStates, s2 \in TableStates, h \in Signals, d \in TableStates :
          NumRegs(source_states, 1) < MaxRegs /\ add_transitions(<<s1, s2>>, h, d)
    \/ \E c \in EmptyCells, cut \in BOOLEAN : export_transitions_to_csv(c, cut)

SpecTable == InitTable /\ [][NextTable]_vars

\* --------------------------------------------------------- CommonRegistrar
\* The nine handler kinds and what each method hands to functools.partial:
\* a method of self._dispatcher, or (edited kinds) the method of self itself.
RegTarget ==
    [message |->
        [object |-> "dispatcher", method |-> "register_message_handler"],
     callback_query |->
        [object |-> "dispatcher", method |-> "callback_query_handler"],
     channel_post |->
        [object |-> "dispatcher", method |-> "register_channel_post_handler"],
     chosen_inline |->
        [object |-> "dispatcher", method |-> "register_chosen_inline_handler"],
     edited_channel_post |->
        [object |-> "self", method |-> "register_edited_channel_post_handler"],
     edited_message |->
        [object |-> "self", method |-> "register_edited_message_handler"],
     inline |->
        [object |-> "dispatcher", method |-> "register_inline_handler"],
     pre_checkout_query |->
        [object |-> "dispatcher", method |-> "register_pre_checkout_query_handler"],
     shipping_query |->
        [object |-> "dispatcher", method |-> "shipping_query_handler"]]

HandlerKinds == DOMAIN RegTarget

\* The sequences over S of length at most n.
SeqsUpTo(S, n) == UNION {[1..m -> S] : m \in 0..n}

\* A Python value as a `for` loop sees it: iterable with its items, or not.
Iterable(items) == [iterable |-> TRUE, items |-> items]

\* A filter object: a callable, which a `for` loop cannot iterate.
PlainFilter == [iterable |-> FALSE, items |-> <<>>]

\* The custom filters given to the calls: a filter object, or an empty tuple.
CustomFilters == {PlainFilter, Iterable(<<>>)}

\* The states given to the calls.
RegStates == {AState, BState}

\* The frame of one register_*_handler invocation: `states` as bound by the
\* call, the remaining positional filters, and the position of the loop of
\* _register_handler.
Frame(kind, states, custom_filters) ==
    [kind |-> kind, states |-> states, custom_filters |-> custom_filters,
     index |-> 1]

\* The innermost frame.
Top == reg_stack[Len(reg_stack)]

\* The frames with the innermost one replaced.
WithTop(frame) == [reg_stack EXCEPT ![Len(reg_stack)] = frame]

\* An exception leaves every frame: the call ends with it.
RegRaise(error) ==
    /\ reg_stack' = <<>>
    /\ reg_call' = [reg_call EXCEPT !.result = error]
    /\ UNCHANGED dispatcher_calls

\* CommonRegistrar.register_<kind>_handler(callback, states, *custom_filters)
\* is called: the partial is built and _register_handler entered.
RegisterCall(kind, states, custom_filters) ==
    /\ reg_stack = <<>>
    /\ reg_call' = [kind |-> kind, states |-> states,
                    custom_filters |-> custom_filters, result |-> None]
    /\ reg_stack' = <<Frame(kind, Iterable(states), custom_filters)>>
    /\ dispatcher_calls' = <<>>
    /\ UNCHANGED <<transitions, states_mapping, initial_state, source_states,
                   handler_order, table_error, csv_file, engine>>

\* `for state in states` over a value that is not iterable: TypeError.
IterateFails ==
    /\ reg_stack # <<>>
    /\ ~Top.states.iterable
    /\ RegRaise("TypeError")
    /\ UNCHANGED <<transitions, states_mapping, initial_state, source_states,
                   handler_order, table_error, csv_file, engine>>

\* reg_partial(state=state) where the partial wraps a dispatcher method.
CallDispatcher ==
    /\ reg_stack # <<>>
    /\ Top.states.iterable
    /\ Top.index <= Len(Top.states.items)
    /\ RegTarget[Top.kind].object = "dispatcher"
    /\ dispatcher_calls' =
          Append(dispatcher_calls,
                 [method |-> RegTarget[Top.kind].method,
                  state |-> Top.states.items[Top.index]])
    /\ reg_stack' = WithTop([Top EXCEPT !.index = @ + 1])
    /\ UNCHANGED <<reg_call, transitions, states_mapping, initial_state,
                   source_states, handler_order, table_error, csv_file, engine>>

\* reg_partial(state=state) where the partial wraps the registrar's own
\* method: the call binds (callback, *custom_filters) to the parameters
\* (callback, states, *custom_filters), state=state going to **kwargs.
\* Without a custom filter `states` is missing: TypeError.  Otherwise the
\* first custom filter becomes `states` of a new invocation.
CallSelf ==
    /\ reg_stack # <<>>
    /\ Top.states.iterable
    /\ Top.index <= Len(Top.states.items)
    /\ RegTarget[Top.kind].object = "self"
    /\ IF Top.custom_filters = <<>>
         THEN RegRaise("TypeError")
         ELSE /\ reg_stack' =
                    Append(WithTop([Top EXCEPT !.index = @ + 1]),
                           Frame(Top.kind, Head(Top.custom_filters),
                                 Tail(Top.custom_filters)))
              /\ UNCHANGED <<reg_call, dispatcher_calls>>
    /\ UNCHANGED <<transitions, states_mapping, initial_state, source_states,
                   handler_order, table_error, csv_file, engine>>

\* The loop of _register_handler is over: the invocation logs and returns.
RegisterReturn ==
    /\ reg_stack # <<>>
    /\ Top.states.iterable
    /\ Top.index > Len(Top.states.items)
    /\ reg_stack' = SubSeq(reg_stack, 1, Len(reg_stack) - 1)
    /\ reg_call' = IF Len(reg_stack) = 1
                     THEN [reg_call EXCEPT !.result = "ok"]
                     ELSE reg_call
    /\ UNCHANGED <<dispatcher_calls, transitions, states_mapping, initial_state,
                   source_states, handler_order, table_error, csv_file, engine>>

NextReg ==
    \/ \E kind \in HandlerKinds, states \in SeqsUpTo(RegStates, MaxStates),
          custom_filters \in SeqsUpTo(CustomFilters, MaxFilters) :
          RegisterCall(kind, states, custom_filters)
    \/ IterateFails
    \/ CallDispatcher
    \/ CallSelf
    \/ RegisterReturn

\* The registrar of a new machine: registrations are made one after another.
SpecReg == InitTable /\ [][NextReg]_vars

\* ------------------------------------------------------------------ claims
\* Another call for the same actor is inside the locked section.
HeldByOther(t) ==
    \E u \in Tasks \ {t} : InLocked(u) /\ task[u].actor = task[t].actor

\* The steps of the call other than the seeding of the log.
Core(steps) ==
    IF steps # <<>> /\ steps[1].step = "initialize" THEN Tail(steps) ELSE steps

\* The call's lookups at fsm.py:161-162 / 182-187 find what they look for.
Resolvable(t) ==
    LET m == task[t].magazine IN
      IF task[t].op = "next"
        THEN /\ CurrentState(m) \in DOMAIN states_mapping
             /\ states_mapping[CurrentState(m)] \in DOMAIN transitions
             /\ task[t].signal_handler
                   \in DOMAIN transitions[states_mapping[CurrentState(m)]]
        ELSE /\ PenultimateState(m) # None
             /\ CurrentState(m) \in DOMAIN states_mapping
             /\ PenultimateState(m) \in DOMAIN states_mapping

\* Task t takes a step of its own code (it is not cancelled).
Runs(t) == task'[t] # task[t] /\ task'[t].result # "CancelledError"

MutualExclusion ==
    \A t, u \in Tasks :
        (t # u /\ InLocked(t) /\ InLocked(u)) => task[t].actor # task[u].actor

RejectedWithoutHooks ==
    \A t \in Tasks :
        task[t].result = "TransitionLockingError"
           => task[t].pc = "done" /\ Core(task[t].steps) = <<>>

FailsFast ==
    \A t \in Tasks :
        (task[t].pc = "loaded" /\ Resolvable(t) /\ HeldByOther(t) /\ Runs(t))
           => /\ task'[t].pc = "done"
              /\ task'[t].result = "TransitionLockingError"
              /\ UNCHANGED <<locks, store_log, store_state>>

\* C1: for every actor at most one execute_transition is inside the locked
\* section at a time; an execute_transition started for the actor while
\* another holds the lock ends at once with TransitionLockingError, whatever
\* its source and destination, and none of its hooks runs.
C1_OneTransitionPerActor ==
    [](MutualExclusion /\ RejectedWithoutHooks) /\ [][FailsFast]_vars

C1_Witness ==
    \E t, u \in Tasks :
        /\ task[t].result = "TransitionLockingError"
        /\ InLocked(u)
        /\ task[u].actor = task[t].actor

NoLockLeftBehind ==
    \A l \in locks : \E t \in Tasks : InLocked(t) /\ OwnLock(t) = l

RejectedOnlyByHolder ==
    \A t \in Tasks :
        (task'[t].result = "TransitionLockingError" /\ task'[t] # task[t])
           => HeldByOther(t)

\* C2: whenever an execute_transition leaves the locked section, by return,
\* by an exception of a hook, by a failure of the state persistence or of the
\* commit, or by cancellation, its lock is released: every held lock belongs
\* to a call that is inside the locked section, and a call is rejected only
\* because of such a call.
C2_LockReleasedOnEveryExit ==
    []NoLockLeftBehind /\ [][RejectedOnlyByHolder]_vars

C2_Witness ==
    \E t, u \in Tasks :
        /\ task[t].pc = "done"
        /\ task[t].steps # <<>>
        /\ task[t].steps[Len(task[t].steps)].outcome = "cancelled"
        /\ task[u].actor = task[t].actor
        /\ InLocked(u)

\* The order of the steps inside the locked section.
Order == <<"process_exit", "process_enter", "set_state", "commit">>

StepsInOrder(t) ==
    LET c == Core(task[t].steps) IN
      /\ Len(c) <= Len(Order)
      /\ \A i \in 1..Len(c) :
            /\ c[i].step = Order[i]
            /\ (i < Len(c) \/ InLocked(t)) => c[i].outcome = "ok"
      /\ InLocked(t) =>
            /\ Len(c) < Len(Order)
            /\ task[t].pc = Order[Len(c) + 1]
            /\ OwnLock(t) \in locks
      /\ task[t].pc \in {"idle", "load", "initialize", "loaded"} => c = <<>>

\* The stores are written by the step the order gives them, under the lock.
WritesInOrder ==
    \A a \in Actors :
        /\ store_state'[a] # store_state[a] =>
              \E t \in Tasks :
                  /\ task[t].actor = a /\ task[t].pc = "set_state"
                  /\ OwnLock(t) \in locks
                  /\ Len(Core(task[t].steps)) = 2
                  /\ store_state'[a] = RawValue(task[t].destination_state)
        /\ (store_log'[a] # store_log[a] /\ store_log[a] # NotFound) =>
              \E t \in Tasks :
                  /\ task[t].actor = a /\ task[t].pc \in {"commit", "initialize"}
                  /\ task[t].pc = "commit" =>
                        /\ OwnLock(t) \in locks
                        /\ Len(Core(task[t].steps)) = 3
                        /\ store_state[a] = RawValue(task[t].destination_state)
                        /\ store_log'[a] =
                              Append(store_log[a], Str(task[t].destination_state))

\* C3: in every execute_transition the steps happen in this order, all under
\* the actor lock: process_exit of the source completes, then process_enter
\* of the destination, then the destination is persisted as the current
\* state, then its name is staged and committed to the magazine.
C3_StepsInOrder ==
    [](\A t \in Tasks : StepsInOrder(t)) /\ [][WritesInOrder]_vars

C3_Witness ==
    \E t \in Tasks :
        /\ task[t].result = "ok"
        /\ Len(Core(task[t].steps)) = 4
        /\ store_state[task[t].actor] # NoRaw

\* C4: for an actor starting with no log, after N sequential successful
\* transitions the log has N+1 entries: the initial state's name followed by
\* the destinations of the N transitions in order, so that current_state is
\* the last destination and penultimate_state the entry before it.
C4_SequentialLog ==
    \A a \in Actors :
        IF store_log[a] = NotFound
          THEN completed[a] = <<>>
          ELSE LET m == MagazineLoad(store_log[a]).magazine
                   n == Len(completed[a]) IN
                 /\ store_log[a] = <<Str(initial_state)>> \o completed[a]
                 /\ Len(store_log[a]) = n + 1
                 /\ n >= 1 => /\ CurrentState(m) = completed[a][n]
                              /\ PenultimateState(m) = store_log[a][n]

C4_Witness ==
    \E a \in Actors : Len(completed[a]) = 2 /\ Len(store_log[a]) = 3

BackResolves ==
    \A t \in Tasks :
        (/\ task[t].pc = "loaded" /\ task[t].op = "back"
         /\ Len(task[t].magazine.states) >= 2 /\ Runs(t))
           => /\ task'[t].pc = "process_exit"
              /\ Str(task'[t].destination_state) = PenultimateState(task[t].magazine)

BackAppends ==
    \A t \in Tasks :
        (task[t].pc = "commit" /\ task[t].op = "back" /\ task'[t].result = "ok")
           => LET log == store_log[task[t].actor] IN
                store_log'[task[t].actor] = Append(log, log[Len(log) - 1])

\* C5: for an actor whose log has at least two entries, whatever advances and
\* retreats produced it, execute_back_transition succeeds when the hooks do
\* not fail and appends one entry equal to the previous penultimate_state;
\* nothing earlier is removed or changed.
C5_BackTransitionSucceeds == [][BackResolves /\ BackAppends]_vars

\* C6: execute_back_transition on an actor whose log has exactly one entry
\* fails with TransitionError before the lock is acquired: no hook runs, the
\* stored state and the log are unchanged.
C6_BackNeedsHistory ==
    [][\A t \in Tasks :
          (/\ task[t].pc = "loaded" /\ task[t].op = "back"
           /\ Len(task[t].magazine.states) = 1 /\ Runs(t))
             => /\ task'[t].pc = "done"
                /\ task'[t].result = "TransitionError"
                /\ task'[t].steps = <<>>
                /\ UNCHANGED <<locks, store_log, store_state>>]_vars

C6_Witness ==
    \E t \in Tasks :
        /\ task[t].result = "TransitionError"
        /\ Len(store_log[task[t].actor]) = 1
        /\ locks = {}

IsPrefix(s, l) == Len(s) <= Len(l) /\ SubSeq(l, 1, Len(s)) = s

\* C7: the persisted log of every actor is append-only: under any
\* interleaving of execute_next_transition and execute_back_transition calls,
\* lazy initialization included, the log at an earlier moment is a prefix of
\* the log at every later moment.
C7_LogAppendOnly ==
    [][\A a \in Actors : IsPrefix(store_log[a], store_log'[a])]_vars

\* The call seeded the log itself.
Lazily(t) == task[t].steps # <<>> /\ task[t].steps[1].step = "initialize"

RecoversByInitializing ==
    \A t \in Tasks :
        (/\ task[t].pc = "load" /\ task[t].op = "next"
         /\ store_log[task[t].actor] = NotFound /\ Runs(t))
           => task'[t].pc = "initialize"

SeedsInitialState ==
    \A t \in Tasks :
        (task[t].pc = "initialize" /\ Runs(t))
           => /\ task'[t].pc = "loaded"
              /\ store_log'[task[t].actor] = <<Str(initial_state)>>
              /\ CurrentState(task'[t].magazine) = Str(initial_state)
              /\ PenultimateState(task'[t].magazine) = None

StartsFromInitialState ==
    \A t \in Tasks :
        (Lazily(t) /\ InLocked(t))
           => /\ task[t].source_state = initial_state
              /\ task[t].destination_state =
                    transitions[initial_state][task[t].signal_handler]

LeavesInitialAndDestination ==
    \A t \in Tasks :
        (Lazily(t) /\ task[t].pc = "commit" /\ task'[t].result = "ok")
           => store_log'[task[t].actor] =
                 <<Str(initial_state),
                   Str(transitions[initial_state][task[t].signal_handler])>>

BackPropagates ==
    \A t \in Tasks :
        (/\ task[t].pc = "load" /\ task[t].op = "back"
         /\ store_log[task[t].actor] = NotFound /\ Runs(t))
           => /\ task'[t].pc = "done"
              /\ task'[t].result = "MagazineInitializationError"
              /\ task'[t].steps = <<>>
              /\ UNCHANGED <<locks, store_log, store_state>>

OnlyNextCreatesLog ==
    \A a \in Actors :
        (store_log[a] = NotFound /\ store_log'[a] # NotFound)
           => \E t \in Tasks :
                 /\ task[t].actor = a /\ task[t].op = "next"
                 /\ task[t].pc = "initialize"

\* C9: execute_back_transition never initializes a magazine: for an actor
\* without a log it fails with MagazineInitializationError, creates no log,
\* runs no hook and persists no state; only execute_next_transition recovers
\* from that error.
C9_BackNeverInitializes ==
    /\ [](\A t \in Tasks : task[t].pc = "initialize" => task[t].op = "next")
    /\ [][BackPropagates /\ OnlyNextCreatesLog]_vars

C9_Witness ==
    \E t \in Tasks :
        /\ task[t].result = "MagazineInitializationError"
        /\ store_log[task[t].actor] = NotFound

\* C10: resolution of (source, signal) in execute_next_transition yields, for
\* a registered pair, the one destination registered for it, and for a pair
\* without mapping fails with StateNotFoundError, without running a hook,
\* persisting a state or appending to the log.
C10_ResolutionOrNotFound ==
    [][\A t \in Tasks :
          (task[t].pc = "loaded" /\ task[t].op = "next" /\ Runs(t))
             => IF Resolvable(t)
                  THEN \/ task'[t].result = "TransitionLockingError"
                       \/ /\ task'[t].pc = "process_exit"
                          /\ task'[t].source_state =
                                states_mapping[CurrentState(task[t].magazine)]
                          /\ task'[t].destination_state =
                                transitions[task'[t].source_state][task[t].signal_handler]
                  ELSE /\ task'[t].pc = "done"
                       /\ task'[t].result = "StateNotFoundError"
                       /\ task'[t].steps = task[t].steps
                       /\ UNCHANGED <<locks, store_log, store_state>>]_vars


\* The call fails with AddingTransitionError and leaves the object as it was.
Rejected(fsm) == fsm = [TableFSM EXCEPT !.error = "AddingTransitionError"]

\* The (source, signal) pairs the table holds.
Registered ==
    {p \in (DOMAIN transitions) \X Signals : p[2] \in DOMAIN transitions[p[1]]}

\* Registering a pair the table already holds is rejected, whatever the
\* destination given.
SecondRegistrationRejected ==
    \A p \in Registered : \A d \in TableStates :
       Rejected(AddTransition(TableFSM, p[1], p[2], d))

\* No call changes the destination of a pair the table holds.
FirstRegistrationKept ==
    \A p \in Registered :
       /\ p[1] \in DOMAIN transitions'
       /\ p[2] \in DOMAIN transitions'[p[1]]
       /\ transitions'[p[1]][p[2]] = transitions[p[1]][p[2]]

\* C11: a (source, signal) pair keeps the destination of its first
\* successful registration: add_transition for a pair the table already
\* holds fails with AddingTransitionError and changes nothing, and no
\* add_transition or add_transitions call replaces a destination.
C11_FirstRegistrationWins ==
    [](SecondRegistrationRejected) /\ [][FirstRegistrationKept]_vars

\* A source state holds a transition for every signal and a further
\* registration was refused.
C11_Witness ==
    /\ \E s \in DOMAIN transitions : DOMAIN transitions[s] = Signals
    /\ table_error = "AddingTransitionError"

\* C12: add_transition with the source state as destination fails with
\* AddingTransitionError for every state and signal and changes nothing, so
\* no transition of the table leads from a state to itself.
C12_NoSelfTransition ==
    /\ \A s \in TableStates, h \in Signals :
          Rejected(AddTransition(TableFSM, s, h, s))
    /\ \A p \in Registered : transitions[p[1]][p[2]] # p[1]

\* A registration was refused, and the table holds a transition whose
\* destination is itself a source state.
C12_Witness ==
    /\ table_error = "AddingTransitionError"
    /\ \E p \in Registered : transitions[p[1]][p[2]] \in DOMAIN transitions

\* C13: a non-empty table has exactly one source state with is_initial set,
\* and it is the first source state that was added.
C13_OneInitialSourceFirst ==
    DOMAIN transitions # {} =>
       /\ Cardinality({s \in DOMAIN transitions : s.is_initial}) = 1
       /\ source_states[1].is_initial


\* A step that does not return is the call's last: the call is over and its
\* result is the step's exception.
FailureStopsCall ==
    \A t \in Tasks : \A i \in 1..Len(task[t].steps) :
        task[t].steps[i].outcome # "ok" =>
           /\ i = Len(task[t].steps)
           /\ task[t].pc = "done"
           /\ task[t].steps[i].outcome = "raised" => task[t].result = "HookError"
           /\ task[t].steps[i].outcome = "failed" => task[t].result = "StorageError"

\* The failing step writes nothing and undoes nothing.
FailureChangesNothing ==
    \A t \in Tasks :
        (InLocked(t) /\ task'[t].result \in {"HookError", "StorageError"})
           => /\ task'[t].pc = "done"
              /\ Len(task'[t].steps) = Len(task[t].steps) + 1
              /\ SubSeq(task'[t].steps, 1, Len(task[t].steps)) = task[t].steps
              /\ task'[t].steps[Len(task'[t].steps)].step = task[t].pc
              /\ UNCHANGED <<store_log, store_state>>

\* The state store is written only by a persistence step that returns, the
\* log only by a commit that returns or by the seeding of the log.
OnlyReturningStepsWrite ==
    \A a \in Actors :
        /\ store_state'[a] # store_state[a] =>
              \E t \in Tasks : /\ task[t].actor = a
                               /\ task[t].pc = "set_state"
                               /\ task'[t].pc = "commit"
        /\ store_log'[a] # store_log[a] =>
              \E t \in Tasks : /\ task[t].actor = a
                               /\ \/ task[t].pc = "commit" /\ task'[t].result = "ok"
                                  \/ task[t].pc = "initialize"

\* C14: a failure inside the locked section ends the call with that failure,
\* no later step is invoked and nothing is rolled back: when process_exit
\* raises, process_enter is not invoked and state and log are unchanged; when
\* process_enter raises, state and log are unchanged although process_exit
\* ran; when the persistence of the state fails, the log is unchanged
\* although both hooks ran.
C14_FailureStopsWithoutRollback ==
    []FailureStopsCall /\ [][FailureChangesNothing /\ OnlyReturningStepsWrite]_vars

\* One call ended by process_enter raising after process_exit ran, another by
\* the state persistence failing after both hooks ran, its actor's state
\* never written and its log holding the seeded entry only.
C14_Witness ==
    \E t, u \in Tasks :
        /\ task[t].result = "HookError"
        /\ Len(Core(task[t].steps)) = 2
        /\ task[u].result = "StorageError"
        /\ Len(Core(task[u].steps)) = 3
        /\ Core(task[u].steps)[3].step = "set_state"
        /\ store_state[task[u].actor] = NoRaw
        /\ Len(store_log[task[u].actor]) = 1


\* A call of another actor is inside the locked section.
OtherActorInLocked(t) ==
    \E u \in Tasks \ {t} : InLocked(u) /\ task[u].actor # task[t].actor

\* A call whose actor has no transition in the locked section enters it,
\* whatever the other actors hold.
EntersUnlessOwnActorHolds ==
    \A t \in Tasks :
        (task[t].pc = "loaded" /\ Resolvable(t) /\ Runs(t) /\ ~HeldByOther(t))
           => /\ task'[t].pc = "process_exit"
              /\ locks' = locks \cup
                    {MkLock(task'[t].source_state, task'[t].destination_state,
                            task[t].actor)}

\* C15: transitions of different actors never contend, also when their
\* source and destination are the same: a transition of one actor is never
\* rejected with TransitionLockingError because of a transition of another
\* actor.
C15_ActorsDoNotContend == [][EntersUnlessOwnActorHolds]_vars

\* Two actors are inside the locked section at once, with the same source
\* and the same destination.
C15_Witness ==
    \E t, u \in Tasks :
        /\ InLocked(t) /\ InLocked(u)
        /\ task[t].actor # task[u].actor
        /\ task[t].source_state = task[u].source_state
        /\ task[t].destination_state = task[u].destination_state


\* The states the table mentions, as source or as destination.
StatesOfTable ==
    (DOMAIN transitions) \cup {transitions[p[1]][p[2]] : p \in Registered}

\* The signals the table mentions.
SignalsOfTable == {p[2] : p \in Registered}

\* The name of a state as a cell shows it.
NameCell(state, cut_state) ==
    IF cut_state /\ EndsWithState(Chars(Str(state)))
      THEN CutState(Chars(Str(state)))
      ELSE Chars(Str(state))

\* The rows are a header with one column per state of the table and one row
\* per signal, the cell of a signal under a state naming the destination the
\* table gives for them or being the empty cell.
RowsShowTable(rows, empty_cell, cut_state) ==
    /\ Len(rows) = 1 + Cardinality(SignalsOfTable)
    /\ Len(rows[1]) = 1 + Cardinality(StatesOfTable)
    /\ rows[1][1] = Chars("")
    /\ \A state \in StatesOfTable :
          \E column \in 2..Len(rows[1]) :
             /\ rows[1][column] = NameCell(state, cut_state)
             /\ \A k \in 2..Len(rows) :
                   /\ Len(rows[k]) = Len(rows[1])
                   /\ \E handler \in SignalsOfTable :
                         /\ rows[k][1] = Chars(handler)
                         /\ rows[k][column] =
                               IF <<state, handler>> \in Registered
                                 THEN NameCell(transitions[state][handler], cut_state)
                                 ELSE empty_cell
    /\ \A handler \in SignalsOfTable :
          Cardinality({k \in 2..Len(rows) : rows[k][1] = Chars(handler)}) = 1

\* C16: the export of a non-empty table writes a header row with one column
\* per state of the table and one row per distinct signal, each holding the
\* signal's name and, per state column, the destination's name (without a
\* trailing "State" when trimming) or the empty cell; for the single
\* transition AState -sig1-> BState, trimmed, the rows are ["", "A", "B"] and
\* ["sig1", "", "B"]; the export of an empty table fails with ExportCSVError.
C16_ExportShowsTable ==
    \A empty_cell \in EmptyCells, cut_state \in BOOLEAN :
       LET export == ExportTransitionsToCsv(TableFSM, empty_cell, cut_state) IN
         /\ DOMAIN transitions = {} => export.error = "ExportCSVError"
         /\ DOMAIN transitions # {} =>
               /\ export.error = None
               /\ RowsShowTable(export.rows, empty_cell, cut_state)
         /\ (Registered = {<<AState, "sig1">>} /\ transitions[AState]["sig1"] = BState
               /\ cut_state /\ empty_cell = Chars(""))
             => export.rows = << <<Chars(""), <<"A">>, <<"B">> >>,
                                 <<Chars("sig1"), Chars(""), <<"B">> >> >>


\* The call that acquires the lock in this step has as source the state the
\* actor's persisted log ends with.
AcquiresWithCurrentSource ==
    \A t \in Tasks :
        (task[t].pc = "loaded" /\ task'[t].pc = "process_exit") =>
           LET log == store_log[task[t].actor] IN
             /\ log # NotFound
             /\ Str(task'[t].source_state) = log[Len(log)]

\* C17: every transition that enters the locked section has as source the
\* state named by the last entry of its actor's persisted log at the moment
\* the lock is acquired, so that no transition runs its hooks and commits
\* from a source read before another transition of the actor committed.
C17_SourceCurrentAtAcquire == [][AcquiresWithCurrentSource]_vars


\* No other call of the task's actor is in flight.
AloneForActor(t) ==
    \A u \in Tasks \ {t} :
        task[u].actor = task[t].actor => task[u].pc \in {"idle", "done"}

\* As a transition returns, the stored state and the end of the log are
\* those of its destination.
StoresAgreeOnReturn ==
    \A t \in Tasks :
        (task[t].pc = "commit" /\ task'[t].result = "ok" /\ AloneForActor(t)) =>
           LET log == store_log'[task[t].actor] IN
             /\ store_state'[task[t].actor] = RawValue(task[t].destination_state)
             /\ log # NotFound
             /\ log[Len(log)] = Str(task[t].destination_state)

\* C18: after every successful execute_transition of an actor with no other
\* transition of that actor in flight, the stored current state is the raw
\* value of the transition's destination and the last entry of the actor's
\* log is the name of that destination.
C18_StateAndLogAgree == [][StoresAgreeOnReturn]_vars

\* A transition returned with no other call for its actor in flight; the
\* store holds the raw value of the state the log ends with.
C18_Witness ==
    \E t \in Tasks :
        LET log == store_log[task[t].actor] IN
          /\ task[t].pc = "done" /\ task[t].result = "ok"
          /\ AloneForActor(t)
          /\ Len(log) = 2
          /\ store_state[task[t].actor] = <<"raw", log[2]>>


\* C19: every state that occurs in the table, as source or as destination,
\* is in the name-to-state mapping under its name, so that the name a log
\* ends with resolves also when the state has no outgoing transition.
C19_MappingCoversTable ==
    \A state \in StatesOfTable :
       /\ Str(state) \in DOMAIN states_mapping
       /\ states_mapping[Str(state)] = state


\* A retreat that returns appends the entry before the last one; on a log
\* that ends [X, Y, X], as a retreat from [X, Y] leaves it, the log then ends
\* [X, Y, X, Y] and the current state is Y.
RetreatAppends ==
    \A t \in Tasks :
        (task[t].pc = "commit" /\ task[t].op = "back" /\ task'[t].result = "ok") =>
           LET log == store_log[task[t].actor]
               after == store_log'[task[t].actor]
               k == Len(log) IN
             /\ k >= 2
             /\ after = Append(log, log[k - 1])
             /\ (k >= 3 /\ log[k] = log[k - 2]) =>
                   /\ SubSeq(after, k - 2, k + 1) =
                         <<log[k - 2], log[k - 1], log[k - 2], log[k - 1]>>
                   /\ CurrentState(MagazineLoad(after).magazine) = log[k - 1]

\* C20: for one actor and no concurrent calls, two consecutive successful
\* execute_back_transition calls on a log ending [..., X, Y] leave the log
\* ending [..., X, Y, X, Y] and the current state Y: the first retreat
\* appends X, the second appends Y, and nothing is removed from the log.
C20_TwoRetreatsAlternate == [][RetreatAppends]_vars

\* The log [AState, BState] after two retreats in a row: the last call of
\* each caller was a retreat that returned, and the log holds the seeded
\* entry and three transitions, the first of which was not a retreat.
C20_Witness ==
    \E a \in Actors :
        /\ \A t \in Tasks : /\ task[t].pc = "done" /\ task[t].actor = a
                            /\ task[t].op = "back" /\ task[t].result = "ok"
        /\ store_log[a] = <<"AState", "BState", "AState", "BState">>
        /\ Len(completed[a]) = 3


\* The calls a register_*_handler call with these states is to make on the
\* dispatcher: one per state, in order, with state set to that state.
OncePerState(states) ==
    [i \in 1..Len(states) |-> states[i]]

\* The states the dispatcher was called with, in order.
StatesRegistered ==
    [i \in 1..Len(dispatcher_calls) |-> dispatcher_calls[i].state]

\* C21: every CommonRegistrar.register_*_handler call with k states ends by
\* returning after exactly k calls on the dispatcher, one per state with
\* state set to that state, and never calls itself: no invocation of the
\* method is ever nested in another; this for all nine handler kinds.
C21_RegistersOncePerState ==
    /\ Len(reg_stack) <= 1
    /\ reg_call.result # None =>
          /\ reg_call.result = "ok"
          /\ StatesRegistered = OncePerState(reg_call.states)

====
